---- MODULE Spec2Model ----
(***************************************************************************)
(* Model of Codex::verify (src/src/codex.rs): the two-phase verification   *)
(* of an operation against a capability-gated memory.                      *)
(*                                                                         *)
(* One verify call is a little sequential process; its program counter     *)
(* pc[c] walks through the statements of the function.  The virtual        *)
(* machine is an external executor: a script is a short straight-line      *)
(* program over the register file, so that its terminal status and the     *)
(* registers it leaves behind are a function of the registers it starts    *)
(* with.                                                                   *)
(***************************************************************************)
EXTENDS Integers, Sequences, FiniteSets, TLC

VARIABLES
    codex,            \* the Codex value: field_order, verifiers
    memory,           \* impl Memory: read_once and immutable lookups
    repo,             \* impl LibRepo: library id -> library
    args,             \* args[c]: contract_id and operation of call c
    pc,               \* pc[c]: position of call c inside verify
    idx,              \* idx[c]: position of the running `for input in ..` loop
    vm_inputs,        \* vm_inputs[c]: register file of the lock VM
    read_once_input,  \* read_once_input[c]: SmallVec built by phase one
    immutable_input,  \* immutable_input[c]: SmallVec built by the second loop
    context,          \* context[c]: the VmContext, once assembled
    vm_main,          \* vm_main[c]: register file of the verifier VM
    result,           \* result[c]: value returned by verify, once returned
    log               \* log[c]: memory/repo/VM interactions of call c, in order

vars == <<codex, memory, repo, args, pc, idx, vm_inputs, read_once_input,
          immutable_input, context, vm_main, result, log>>

----------------------------------------------------------------------------
(* Bounds of the model *)

MaxInputs == 2        \* longest operation.destroying
MaxWitness == 5       \* longest input.witness
FieldOrder == 5       \* codex.field_order: field elements are 0..FieldOrder-1

----------------------------------------------------------------------------
(* Option<T> *)

None == <<>>
Some(v) == <<v>>
Unwrap(o) == o[1]

----------------------------------------------------------------------------
(* Registers of the VM: RegE::E1 .. RegE::E8 *)

E1 == 1
E2 == 2
E3 == 3
E4 == 4
E5 == 5
E8 == 8
RegE == E1..E8

\* Vm::with(config, field_order): every register unset
FreshRegs == [r \in RegE |-> None]

\* (no reset: the registers stay as the last script left them)
ResetKeep(regs) == regs

\* vm_inputs.reset(): the register/core state is cleared
Reset(regs) == [r \in RegE |-> None]

\* The registers the witness is put into, in order
WitnessRegs == <<E1, E2, E3, E4>>

\* The register verify reads the code of a failed lock script from
LockErrReg == E8

\* The register verify reads the code of a failed verifier script from
ScriptErrReg == E1

\* for (no, reg) in [E1..E4].enumerate(): if let Some(el) = witness.get(no)
\*     { cx.set(reg, el) }       (witness.get is 0-based, sequences 1-based)
RECURSIVE PutWitness(_, _, _)
PutWitness(regs, witness, no) ==
    IF no > Len(WitnessRegs) THEN regs
    ELSE PutWitness(IF no <= Len(witness)
                      THEN [regs EXCEPT ![WitnessRegs[no]] = Some(witness[no])]
                      ELSE regs,
                    witness, no + 1)

\* (0-based/1-based confusion: the first element is skipped)
LoadWitnessShifted(regs, witness) ==
    PutWitness(regs, IF witness = <<>> THEN <<>> ELSE Tail(witness), 1)

\* (a fifth element is put too, into E5)
LoadWitnessFive(regs, witness) ==
    LET four == PutWitness(regs, witness, 1) IN
    IF Len(witness) >= 5 THEN [four EXCEPT ![E5] = Some(witness[5])] ELSE four

LoadWitness(regs, witness) == PutWitness(regs, witness, 1)

----------------------------------------------------------------------------
(* The executor.  An instruction is [op, r, v]:                            *)
(*   put       set register r to v                                         *)
(*   failUnset stop with Status::Fail if register r is unset               *)
(*   failSet   stop with Status::Fail if register r is set                 *)
(*   fail      stop with Status::Fail                                      *)
(* Running off the end of the program is Status::Ok.                       *)

Ins(op, r, v) == [op |-> op, r |-> r, v |-> v]

RECURSIVE Run(_, _, _)
Run(prog, ip, regs) ==
    IF ip > Len(prog) THEN [st |-> "Ok", regs |-> regs]
    ELSE LET ins == prog[ip] IN
         CASE ins.op = "put" ->
                Run(prog, ip + 1, [regs EXCEPT ![ins.r] = Some(ins.v)])
           [] ins.op = "failUnset" ->
                IF regs[ins.r] = None THEN [st |-> "Fail", regs |-> regs]
                ELSE Run(prog, ip + 1, regs)
           [] ins.op = "failSet" ->
                IF regs[ins.r] # None THEN [st |-> "Fail", regs |-> regs]
                ELSE Run(prog, ip + 1, regs)
           [] OTHER -> [st |-> "Fail", regs |-> regs]

\* vm.exec(site, .., resolver): resolve the library of the entry point through
\* the repo; a library that is missing is an execution failure
Exec(site, regs, rp) ==
    IF rp[site] = None THEN [st |-> "Fail", regs |-> regs]
    ELSE Run(Unwrap(rp[site]), 1, regs)

----------------------------------------------------------------------------
(* The library repository used by the runs: one library per entry point.  *)

\* A lock that checks its witness: no witness, fail without a code; one
\* element, fail with code 0; two, fail with code 2; three or more, succeed,
\* leaving scratch registers behind.
LockW == << Ins("failUnset", E1, 0),
            Ins("put", E8, 0),
            Ins("failUnset", E2, 0),
            Ins("put", E8, 2),
            Ins("failUnset", E3, 0),
            Ins("put", E5, 1) >>

\* A lock that fails only if a register outside its inputs is already set
LockClean == << Ins("failSet", E5, 0),
                Ins("failSet", E8, 0) >>

Libs ==
    [ ok     |-> Some(<< >>),
      fail   |-> Some(<< Ins("fail", E1, 0) >>),
      failE1 |-> Some(<< Ins("put", E1, 3), Ins("fail", E1, 0) >>),
      fail0  |-> Some(<< Ins("put", E1, 0), Ins("put", E8, 0), Ins("fail", E1, 0) >>),
      failE8 |-> Some(<< Ins("put", E8, 2), Ins("fail", E1, 0) >>),
      lockW  |-> Some(LockW),
      clean  |-> Some(LockClean),
      nolib  |-> None ]

VerifierSites == {"ok", "fail", "failE1", "fail0", "failE8", "nolib"}

----------------------------------------------------------------------------
(* Memories *)

Cell(data, lock) == [data |-> data, lock |-> lock]

\* address 1: no read-once cell; 2: unlocked cell; 3: unlocked cell without
\* immutable data; 4, 5: locked cells
MemFull ==
    [ read_once |-> << None,
                       Some(Cell("X", None)),
                       Some(Cell("Y", None)),
                       Some(Cell("Z", Some("lockW"))),
                       Some(Cell("W", Some("clean"))) >>,
      immutable |-> << Some("P"), Some("Q"), None, Some("R"), Some("S") >> ]

\* a memory that returns None for every address
MemEmpty ==
    [ read_once |-> [a \in DOMAIN MemFull.read_once |-> None],
      immutable |-> [a \in DOMAIN MemFull.read_once |-> None] ]

CellAddr == DOMAIN MemFull.read_once

\* Memory::read_once
MemReadOnce(mem, addr) == mem.read_once[addr]

\* (the data of the read-once cell, in place of the immutable data)
MemImmutableFromCell(mem, addr) ==
    IF mem.read_once[addr] = None THEN None
    ELSE Some(Unwrap(mem.read_once[addr]).data)

\* Memory::immutable
MemImmutable(mem, addr) == mem.immutable[addr]

----------------------------------------------------------------------------
(* Inputs of verify *)

ContractId == {1, 2}

\* the contract the caller verifies for
ThisContract == CHOOSE k \in ContractId : \A j \in ContractId : k <= j
CallId == {1, 2}

\* the witness of n elements
WitnessOf(n) == [k \in 1..n |-> k % FieldOrder]

Witnesses == {WitnessOf(n) : n \in 0..MaxWitness}

\* has the cell at addr a lock?  (`if let Some(lock) = cell.lock`)
Locked(mem, addr) ==
    /\ mem.read_once[addr] # None
    /\ Unwrap(mem.read_once[addr]).lock # None

\* every witness for the inputs that name a locked cell; for the others, whose
\* witness verify never reads, the empty and the longest one
Input ==
    { in \in [addr : CellAddr, witness : Witnesses] :
        \/ Locked(MemFull, in.addr)
        \/ Len(in.witness) \in {0, MaxWitness} }

RECURSIVE SeqsUpTo(_, _)
SeqsUpTo(S, n) ==
    IF n = 0 THEN {<<>>}
    ELSE LET shorter == SeqsUpTo(S, n - 1) IN
         shorter \cup {Append(s, x) : s \in {t \in shorter : Len(t) = n - 1}, x \in S}

Outputs ==
    { [destructible |-> <<>>, immutable |-> <<>>],
      [destructible |-> <<Cell("A", None), Cell("B", Some("ok"))>>,
       immutable |-> <<"U", "V">>] }

Operation ==
    { [contract_id |-> k, call_id |-> f, destroying |-> d,
       destructible |-> o.destructible, immutable |-> o.immutable] :
         k \in ContractId, f \in CallId,
         d \in SeqsUpTo(Input, MaxInputs), o \in Outputs }

\* codex.verifiers: call id 1 is bound to a verifier, call id 2 is not
Codexes ==
    { [field_order |-> FieldOrder, verifiers |-> [f \in {1} |-> s]] :
         s \in VerifierSites }

\* (an unknown call id falls back to a verifier the codex has)
VerifierOrFirst(cdx, call_id) ==
    IF call_id \in DOMAIN cdx.verifiers THEN Some(cdx.verifiers[call_id])
    ELSE Some(cdx.verifiers[CHOOSE f \in DOMAIN cdx.verifiers : TRUE])

\* self.verifiers.get(&call_id)
VerifierOf(cdx, call_id) ==
    IF call_id \in DOMAIN cdx.verifiers THEN Some(cdx.verifiers[call_id])
    ELSE None

----------------------------------------------------------------------------
(* Result<(), CallError>: [kind, data], data the variant's fields in order *)

Res(kind, data) == [kind |-> kind, data |-> data]

Ok == Res("Ok", <<>>)
WrongContract(expected, found) == Res("WrongContract", <<expected, found>>)
NotFound(call_id) == Res("NotFound", <<call_id>>)
\* (the variant of the other lookup)
NoReadOnceInputAsImmutable(addr) == Res("NoImmutableInput", <<addr>>)
NoReadOnceInput(addr) == Res("NoReadOnceInput", <<addr>>)
NoImmutableInput(addr) == Res("NoImmutableInput", <<addr>>)
Lock(code) == Res("Lock", code)
Script(err_code) == Res("Script", <<err_code>>)
ScriptUnspecified == Res("ScriptUnspecified", <<>>)

Pending == Res("Pending", <<>>)

----------------------------------------------------------------------------
(* Calls *)

Calls == {1, 2}

Ev(ev, i, a, st) == [ev |-> ev, i |-> i, a |-> a, st |-> st]

Op(c) == args[c].operation
Destroying(c) == Op(c).destroying

Logged(c, evs) == log' = [log EXCEPT ![c] = log[c] \o evs]

Return(c, r) ==
    /\ result' = [result EXCEPT ![c] = r]
    /\ pc' = [pc EXCEPT ![c] = "done"]

InitCall(active) ==
    /\ pc = [c \in Calls |-> IF c \in active THEN "start" ELSE "idle"]
    /\ idx = [c \in Calls |-> 0]
    /\ vm_inputs = [c \in Calls |-> FreshRegs]
    /\ read_once_input = [c \in Calls |-> <<>>]
    /\ immutable_input = [c \in Calls |-> <<>>]
    /\ context = [c \in Calls |-> None]
    /\ vm_main = [c \in Calls |-> FreshRegs]
    /\ result = [c \in Calls |-> Pending]
    /\ log = [c \in Calls |-> <<>>]

\* One caller: call 1 verifies any operation; call 2 is not made
Init ==
    /\ codex \in Codexes
    /\ memory \in {MemFull, MemEmpty}
    /\ repo = Libs
    /\ \E op \in Operation :
          args = [c \in Calls |-> [contract_id |-> ThisContract, operation |-> op]]
    /\ InitCall({1})

\* the operations of the two-caller runs: the inputs are cells that the memory
\* holds; one input, or two locked ones with witnesses of four and of four or more
PairOperation ==
    { op \in Operation :
        /\ op.contract_id = ThisContract
        /\ op.destructible # <<>>
        /\ \/ Len(op.destroying) <= 1
           \/ /\ Len(op.destroying) = 2
              /\ Len(op.destroying[1].witness) = 4
              /\ Len(op.destroying[2].witness) >= 4
              /\ op.destroying[1].addr # op.destroying[2].addr
              /\ \A k \in DOMAIN op.destroying : Locked(MemFull, op.destroying[k].addr)
        /\ \A k \in DOMAIN op.destroying :
              /\ MemFull.read_once[op.destroying[k].addr] # None
              /\ MemFull.immutable[op.destroying[k].addr] # None }

\* Two callers: calls 1 and 2 verify against the same codex, memory and repo,
\* their steps interleaved in any order
InitPair ==
    /\ codex \in Codexes
    /\ memory = MemFull
    /\ repo = Libs
    /\ \E op1 \in PairOperation, op2 \in PairOperation :
          args = [c \in Calls |->
                    [contract_id |-> ThisContract,
                     operation |-> IF c = 1 THEN op1 ELSE op2]]
    /\ InitCall(Calls)

----------------------------------------------------------------------------
(* Codex::verify, statement by statement *)

\* (an accepted operation takes its destroying cells out of the memory)
ReadOnlyConsuming ==
    /\ UNCHANGED <<codex, repo, args>>
    /\ memory' =
         [memory EXCEPT !.read_once =
            [a \in DOMAIN @ |->
               IF \E c \in Calls :
                     /\ result[c].kind # "Ok" /\ result'[c].kind = "Ok"
                     /\ \E k \in DOMAIN Destroying(c) : Destroying(c)[k].addr = a
                 THEN None ELSE @[a]]]

\* &self, &Operation, &impl Memory, &impl LibRepo: verify holds shared
\* references only and writes through none of them
ReadOnly == UNCHANGED <<codex, memory, repo, args>>

\* (no identity check)
ContractMismatchNever(c) == FALSE

ContractMismatch(c) == Op(c).contract_id # args[c].contract_id

\* lines 62-72
CheckContract(c) ==
    /\ pc[c] = "start"
    /\ IF ContractMismatch(c)
         THEN /\ Return(c, WrongContract(args[c].contract_id, Op(c).contract_id))
              /\ UNCHANGED <<idx, vm_inputs, read_once_input>>
         ELSE /\ pc' = [pc EXCEPT ![c] = "phase1"]
              /\ idx' = [idx EXCEPT ![c] = 1]
              /\ vm_inputs' = [vm_inputs EXCEPT ![c] = FreshRegs]
              /\ read_once_input' = [read_once_input EXCEPT ![c] = <<>>]
              /\ UNCHANGED result
    /\ UNCHANGED <<immutable_input, context, vm_main, log>>
    /\ ReadOnly

\* (a push at the front)
PushFront(v, x) == <<x>> \o v

\* SmallVec::push
Push(v, x) == Append(v, x)

\* (a missing cell looked up a second time before giving up)
ReadOnceRetry(c) ==
    /\ pc[c] = "phase1"
    /\ idx[c] <= Len(Destroying(c))
    /\ LET input == Destroying(c)[idx[c]]
           cell == MemReadOnce(memory, input.addr)
           again == log[c] # <<>> /\ log[c][Len(log[c])].ev = "read_once"
                                  /\ log[c][Len(log[c])].i = idx[c]
       IN /\ Logged(c, << Ev("read_once", idx[c], input.addr,
                             IF cell = None THEN "None" ELSE "Some") >>)
          /\ IF cell = None
               THEN IF again
                      THEN /\ Return(c, NoReadOnceInput(input.addr))
                           /\ UNCHANGED <<idx, vm_inputs, read_once_input>>
                      ELSE UNCHANGED <<pc, result, idx, vm_inputs, read_once_input>>
               ELSE IF Unwrap(cell).lock # None
                 THEN /\ vm_inputs' = [vm_inputs EXCEPT
                                         ![c] = LoadWitness(vm_inputs[c], input.witness)]
                      /\ pc' = [pc EXCEPT ![c] = "lock"]
                      /\ UNCHANGED <<idx, read_once_input, result>>
                 ELSE /\ read_once_input' = [read_once_input EXCEPT
                                               ![c] = Push(read_once_input[c], Unwrap(cell).data)]
                      /\ idx' = [idx EXCEPT ![c] = idx[c] + 1]
                      /\ UNCHANGED <<pc, vm_inputs, result>>
    /\ UNCHANGED <<immutable_input, context, vm_main>>
    /\ ReadOnly

\* lines 73-88 and, for a cell without lock, 96: one turn of the first loop up
\* to the point where the lock script is about to run
ReadOnce(c) ==
    /\ pc[c] = "phase1"
    /\ idx[c] <= Len(Destroying(c))
    /\ LET input == Destroying(c)[idx[c]]
           cell == MemReadOnce(memory, input.addr)
       IN /\ Logged(c, << Ev("read_once", idx[c], input.addr,
                             IF cell = None THEN "None" ELSE "Some") >>)
          /\ IF cell = None
               THEN /\ Return(c, NoReadOnceInput(input.addr))
                    /\ UNCHANGED <<idx, vm_inputs, read_once_input>>
               ELSE IF Unwrap(cell).lock # None
                 THEN /\ vm_inputs' = [vm_inputs EXCEPT
                                         ![c] = LoadWitness(vm_inputs[c], input.witness)]
                      /\ pc' = [pc EXCEPT ![c] = "lock"]
                      /\ UNCHANGED <<idx, read_once_input, result>>
                 ELSE /\ read_once_input' = [read_once_input EXCEPT
                                               ![c] = Push(read_once_input[c], Unwrap(cell).data)]
                      /\ idx' = [idx EXCEPT ![c] = idx[c] + 1]
                      /\ UNCHANGED <<pc, vm_inputs, result>>
    /\ UNCHANGED <<immutable_input, context, vm_main>>
    /\ ReadOnly

\* (one lock VM shared by all calls)
LockVmShared(c) == vm_inputs[CHOOSE d \in Calls : \A e \in Calls : d <= e]

\* vm_inputs, a local of the call
LockVm(c) == vm_inputs[c]

\* (the code of a failed lock read from the verifier's register)
LockErrFromE1(regs) == Lock(regs[E1])

\* (a code of 0 reported as no code)
LockErrZeroNone(regs) ==
    Lock(IF regs[LockErrReg] = Some(0) THEN None ELSE regs[LockErrReg])

\* line 91
LockErr(regs) == Lock(regs[LockErrReg])

\* lines 89-96: the lock script runs; failure returns, success resets the VM
\* and pushes the cell's data
ExecLock(c) ==
    /\ pc[c] = "lock"
    /\ LET input == Destroying(c)[idx[c]]
           cell == Unwrap(MemReadOnce(memory, input.addr))
           lock == Unwrap(cell.lock)
           run == Exec(lock, LockVm(c), repo)
       IN /\ Logged(c, << Ev("get_lib", idx[c], input.addr,
                             IF repo[lock] = None THEN "None" ELSE "Some"),
                          Ev("exec_lock", idx[c], input.addr, run.st) >>
                        \o IF run.st = "Fail"
                             THEN << Ev("get_reg", idx[c], LockErrReg, "lock") >>
                             ELSE << >>)
          /\ IF run.st = "Fail"
               THEN /\ vm_inputs' = [vm_inputs EXCEPT ![c] = run.regs]
                    /\ Return(c, LockErr(run.regs))
                    /\ UNCHANGED <<idx, read_once_input>>
               ELSE /\ vm_inputs' = [vm_inputs EXCEPT ![c] = Reset(run.regs)]
                    /\ read_once_input' = [read_once_input EXCEPT
                                             ![c] = Push(read_once_input[c], cell.data)]
                    /\ idx' = [idx EXCEPT ![c] = idx[c] + 1]
                    /\ pc' = [pc EXCEPT ![c] = "phase1"]
                    /\ UNCHANGED result
    /\ UNCHANGED <<immutable_input, context, vm_main>>
    /\ ReadOnly

\* (the entry point looked up between the two loops)
Phase1DoneCheckCall(c) ==
    /\ pc[c] = "phase1"
    /\ idx[c] > Len(Destroying(c))
    /\ IF VerifierOf(codex, Op(c).call_id) = None
         THEN /\ Return(c, NotFound(Op(c).call_id))
              /\ UNCHANGED <<idx, immutable_input>>
         ELSE /\ pc' = [pc EXCEPT ![c] = "phase1b"]
              /\ idx' = [idx EXCEPT ![c] = 1]
              /\ immutable_input' = [immutable_input EXCEPT ![c] = <<>>]
              /\ UNCHANGED result
    /\ UNCHANGED <<vm_inputs, read_once_input, context, vm_main, log>>
    /\ ReadOnly

\* (the first loop left at any turn)
Phase1DoneEarly(c) ==
    /\ pc[c] = "phase1"
    /\ pc' = [pc EXCEPT ![c] = "phase1b"]
    /\ idx' = [idx EXCEPT ![c] = 1]
    /\ immutable_input' = [immutable_input EXCEPT ![c] = <<>>]
    /\ UNCHANGED <<vm_inputs, read_once_input, context, vm_main, result, log>>
    /\ ReadOnly

\* lines 97-99: the first loop is over, the second begins
Phase1Done(c) ==
    /\ pc[c] = "phase1"
    /\ idx[c] > Len(Destroying(c))
    /\ pc' = [pc EXCEPT ![c] = "phase1b"]
    /\ idx' = [idx EXCEPT ![c] = 1]
    /\ immutable_input' = [immutable_input EXCEPT ![c] = <<>>]
    /\ UNCHANGED <<vm_inputs, read_once_input, context, vm_main, result, log>>
    /\ ReadOnly

\* lines 100-105: one turn of the second loop
Immutable(c) ==
    /\ pc[c] = "phase1b"
    /\ idx[c] <= Len(Destroying(c))
    /\ LET input == Destroying(c)[idx[c]]
           data == MemImmutable(memory, input.addr)
       IN /\ Logged(c, << Ev("immutable", idx[c], input.addr,
                             IF data = None THEN "None" ELSE "Some") >>)
          /\ IF data = None
               THEN /\ Return(c, NoImmutableInput(input.addr))
                    /\ UNCHANGED <<idx, immutable_input>>
               ELSE /\ immutable_input' = [immutable_input EXCEPT
                                             ![c] = Push(immutable_input[c], Unwrap(data))]
                    /\ idx' = [idx EXCEPT ![c] = idx[c] + 1]
                    /\ UNCHANGED <<pc, result>>
    /\ UNCHANGED <<vm_inputs, read_once_input, context, vm_main>>
    /\ ReadOnly

\* (the outputs in reverse order)
Reversed(v) == [k \in DOMAIN v |-> v[Len(v) + 1 - k]]

VmContextReversed(c) ==
    [ read_once_input  |-> read_once_input[c],
      immutable_input  |-> immutable_input[c],
      read_once_output |-> Reversed(Op(c).destructible),
      immutable_output |-> Reversed(Op(c).immutable) ]

\* lines 112-117
VmContext(c) ==
    [ read_once_input  |-> read_once_input[c],
      immutable_input  |-> immutable_input[c],
      read_once_output |-> Op(c).destructible,
      immutable_output |-> Op(c).immutable ]

\* lines 108-118: the verifier is looked up, the context and the VM are made
LookupVerifier(c) ==
    /\ pc[c] = "phase1b"
    /\ idx[c] > Len(Destroying(c))
    /\ IF VerifierOf(codex, Op(c).call_id) = None
         THEN /\ Return(c, NotFound(Op(c).call_id))
              /\ UNCHANGED <<context, vm_main>>
         ELSE /\ context' = [context EXCEPT ![c] = Some(VmContext(c))]
              /\ vm_main' = [vm_main EXCEPT ![c] = FreshRegs]
              /\ pc' = [pc EXCEPT ![c] = "main"]
              /\ UNCHANGED result
    /\ UNCHANGED <<idx, vm_inputs, read_once_input, immutable_input, log>>
    /\ ReadOnly

\* (a register holding 0 taken for an unset one)
ScriptResultZeroUnset(st, regs) ==
    IF st = "Ok" THEN Ok
    ELSE IF regs[ScriptErrReg] # None /\ regs[ScriptErrReg] # Some(0)
      THEN Script(Unwrap(regs[ScriptErrReg]))
    ELSE ScriptUnspecified

\* (the status of the verifier script disregarded)
ScriptResultLenient(st, regs) == Ok

\* lines 119-128
ScriptResult(st, regs) ==
    IF st = "Ok" THEN Ok
    ELSE IF regs[ScriptErrReg] # None THEN Script(Unwrap(regs[ScriptErrReg]))
    ELSE ScriptUnspecified

\* lines 119-128: the verifier script runs and verify returns
ExecMain(c) ==
    /\ pc[c] = "main"
    /\ LET entry_point == Unwrap(VerifierOf(codex, Op(c).call_id))
           run == Exec(entry_point, vm_main[c], repo)
       IN /\ Logged(c, << Ev("get_lib", 0, 0,
                             IF repo[entry_point] = None THEN "None" ELSE "Some"),
                          Ev("exec_main", 0, 0, run.st) >>
                        \o IF run.st = "Fail"
                             THEN << Ev("get_reg", 0, ScriptErrReg, "main") >>
                             ELSE << >>)
          /\ vm_main' = [vm_main EXCEPT ![c] = run.regs]
          /\ Return(c, ScriptResult(run.st, run.regs))
    /\ UNCHANGED <<idx, vm_inputs, read_once_input, immutable_input, context>>
    /\ ReadOnly

Step(c) ==
    \/ CheckContract(c)
    \/ ReadOnce(c)
    \/ ExecLock(c)
    \/ Phase1Done(c)
    \/ Immutable(c)
    \/ LookupVerifier(c)
    \/ ExecMain(c)

Next == \E c \in Calls : Step(c)

Spec == Init /\ [][Next]_vars

SpecPair == InitPair /\ [][Next]_vars

\* One caller whose call is not abandoned: verify is sequential code, each of
\* its statements is executed once control reaches it
SpecFair == Init /\ [][Next]_vars /\ WF_vars(Next)

----------------------------------------------------------------------------
(* What the properties below talk about *)

Done(c) == pc[c] = "done"

Matching(c) == Op(c).contract_id = args[c].contract_id

\* the events call c has logged so far
LogEv(c) == {log[c][p] : p \in DOMAIN log[c]}

Happened(c, kinds) == \E e \in LogEv(c) : e.ev \in kinds

\* the input indexes the events of one kind name, in the order logged
IndexesOf(c, kind) ==
    LET evs == SelectSeq(log[c], LAMBDA e : e.ev = kind)
    IN [k \in DOMAIN evs |-> evs[k].i]

AddrAt(c, k) == Destroying(c)[k].addr

\* inputs whose read-once cell, resp. immutable data, the memory does not hold
NoCellIdx(c) == {k \in DOMAIN Destroying(c) : memory.read_once[AddrAt(c, k)] = None}
NoDataIdx(c) == {k \in DOMAIN Destroying(c) : memory.immutable[AddrAt(c, k)] = None}

Least(S) == CHOOSE k \in S : \A j \in S : k <= j

LockFailed(c) == \E e \in LogEv(c) : e.ev = "exec_lock" /\ e.st = "Fail"

Returned(c, kind, data) == result[c].kind = kind /\ result[c].data = data

----------------------------------------------------------------------------
(* C1 .. C10 *)

\* C1: an operation of another contract is rejected with
\* WrongContract{expected = contract_id, found = operation.contract_id}, and
\* nothing was looked up or executed before: no memory.read_once, no
\* memory.immutable, no repo.get_lib, no lock or verifier script.
C1_WrongContract ==
    \A c \in Calls :
        Op(c).contract_id # args[c].contract_id /\ pc[c] # "start" /\ pc[c] # "idle"
        => /\ Done(c)
           /\ Returned(c, "WrongContract", <<args[c].contract_id, Op(c).contract_id>>)
           /\ log[c] = <<>>
           /\ context[c] = None

C1_Witness ==
    /\ Done(1)
    /\ Op(1).contract_id # args[1].contract_id
    /\ Len(Destroying(1)) = MaxInputs
    /\ memory = MemFull
    /\ result[1].kind = "WrongContract"

\* C2 as stated: when a read-once cell of destroying is absent, verify returns
\* NoReadOnceInput for it (here: for the first absent one) and no lock script
\* and no verifier script has executed in that call, the locks of the inputs
\* listed earlier included.
C2_NoScriptBeforeNoReadOnce ==
    \A c \in Calls :
        Done(c) /\ Matching(c) /\ NoCellIdx(c) # {}
        => /\ Returned(c, "NoReadOnceInput", <<AddrAt(c, Least(NoCellIdx(c)))>>)
           /\ ~Happened(c, {"exec_lock", "exec_main"})

\* C2 amended: with i the first input whose read-once cell is absent, verify
\* returns Lock(..) if the lock of an input before i fails, and otherwise
\* NoReadOnceInput(addr of i); in the latter case the lock of every locked
\* input before i has executed (and succeeded), and no lock of input i or
\* later, no immutable lookup and no verifier script has happened.
C2_NoReadOnceInput ==
    \A c \in Calls :
        Done(c) /\ Matching(c) /\ NoCellIdx(c) # {}
        => LET i == Least(NoCellIdx(c)) IN
           \/ /\ result[c].kind = "Lock"
              /\ \E e \in LogEv(c) : e.ev = "exec_lock" /\ e.st = "Fail" /\ e.i < i
           \/ /\ Returned(c, "NoReadOnceInput", <<AddrAt(c, i)>>)
              /\ ~Happened(c, {"immutable", "exec_main"})
              /\ \A e \in LogEv(c) : e.ev = "exec_lock" => e.i < i /\ e.st = "Ok"
              /\ \A j \in 1..(i - 1) :
                    Locked(memory, AddrAt(c, j))
                    => \E e \in LogEv(c) : e.ev = "exec_lock" /\ e.i = j

C2_Witness ==
    /\ Done(1)
    /\ result[1].kind = "NoReadOnceInput"
    /\ Happened(1, {"exec_lock"})
    /\ Least(NoCellIdx(1)) = 2

\* C3 as stated: when the read-once cell of an input exists and its immutable
\* data does not, verify returns NoImmutableInput for it (here: for the first
\* such input).
C3_AlwaysNoImmutable ==
    \A c \in Calls :
        Done(c) /\ Matching(c) /\ (NoDataIdx(c) \ NoCellIdx(c)) # {}
        => Returned(c, "NoImmutableInput",
                    <<AddrAt(c, Least(NoDataIdx(c) \ NoCellIdx(c)))>>)

\* C3 amended: if every read-once cell of destroying is present and every
\* lock succeeds, verify returns NoImmutableInput(addr) for the first input,
\* in list order, whose immutable data is absent, and the verifier script has
\* not executed.
C3_NoImmutableInput ==
    \A c \in Calls :
        /\ Done(c) /\ Matching(c)
        /\ NoCellIdx(c) = {} /\ ~LockFailed(c)
        /\ NoDataIdx(c) # {}
        => /\ Returned(c, "NoImmutableInput", <<AddrAt(c, Least(NoDataIdx(c)))>>)
           /\ ~Happened(c, {"exec_main"})
           /\ context[c] = None

C3_Witness ==
    /\ Done(1)
    /\ result[1].kind = "NoImmutableInput"
    /\ Happened(1, {"exec_lock"})
    /\ Least(NoDataIdx(1)) = 2

\* C4 as stated: a call_id that is no key of codex.verifiers gives
\* NotFound(call_id) with no input materialized: no memory.read_once, no
\* memory.immutable, no lock script, whatever destroying contains.
C4_NotFoundBeforeInputs ==
    \A c \in Calls :
        Done(c) /\ Matching(c) /\ Op(c).call_id \notin DOMAIN codex.verifiers
        => /\ Returned(c, "NotFound", <<Op(c).call_id>>)
           /\ ~Happened(c, {"read_once", "immutable", "exec_lock"})

\* C4 amended: the verifier is looked up after the inputs.  If call_id is no
\* key of codex.verifiers, every read-once cell and all immutable data of
\* destroying are present and every lock succeeds, verify returns
\* NotFound(call_id); by then read_once and immutable have been looked up once
\* for every input, in list order, every lock has executed, and no verifier
\* script has.  NotFound is never returned with an input left unmaterialized.
C4_NotFound ==
    \A c \in Calls :
        /\ ( /\ Done(c) /\ Matching(c)
             /\ Op(c).call_id \notin DOMAIN codex.verifiers
             /\ NoCellIdx(c) = {} /\ NoDataIdx(c) = {} /\ ~LockFailed(c)
             => Returned(c, "NotFound", <<Op(c).call_id>>) )
        /\ ( result[c].kind = "NotFound"
             => /\ Op(c).call_id \notin DOMAIN codex.verifiers
                /\ IndexesOf(c, "read_once") = [k \in DOMAIN Destroying(c) |-> k]
                /\ IndexesOf(c, "immutable") = [k \in DOMAIN Destroying(c) |-> k]
                /\ \A k \in DOMAIN Destroying(c) :
                      Locked(memory, AddrAt(c, k))
                      => \E e \in LogEv(c) : e.ev = "exec_lock" /\ e.i = k
                /\ Len(read_once_input[c]) = Len(Destroying(c))
                /\ Len(immutable_input[c]) = Len(Destroying(c))
                /\ ~Happened(c, {"exec_main"}) )

C4_Witness ==
    /\ Done(1)
    /\ result[1].kind = "NotFound"
    /\ Len(Destroying(1)) = MaxInputs
    /\ Happened(1, {"exec_lock"})

\* C5: lock isolation.  When the lock script of input i is about to start,
\* the registers of the lock VM hold the first four elements of input i's own
\* witness in E1..E4 and every other register is unset, whatever the witnesses
\* and lock scripts of earlier inputs wrote; and the status every executed
\* lock ended with is the status it ends with when run alone on its witness.
C5_LockIsolation ==
    \A c \in Calls :
        /\ pc[c] = "lock"
           => LET w == Destroying(c)[idx[c]].witness IN
              \A r \in RegE :
                 vm_inputs[c][r] = IF r <= 4 /\ r <= Len(w) THEN <<w[r]>> ELSE <<>>
        /\ \A e \in LogEv(c) :
              e.ev = "exec_lock"
              => LET w == Destroying(c)[e.i].witness
                     alone == [r \in RegE |-> IF r <= 4 /\ r <= Len(w)
                                                THEN <<w[r]>> ELSE <<>>]
                     lock == memory.read_once[e.a][1].lock[1]
                 IN e.st = Exec(lock, alone, repo).st

C5_Witness ==
    /\ pc[1] = "lock"
    /\ idx[1] = 2
    /\ Locked(memory, AddrAt(1, 1))
    /\ Len(Destroying(1)[1].witness) = MaxWitness
    /\ Len(Destroying(1)[2].witness) = 1

\* C6: a lock script that fails ends the call: verify returns Lock(code), code
\* being the error-code register of the lock VM (None when unset); nothing
\* follows it: no read_once or lock for later inputs, no immutable lookup, no
\* verifier.  And read_once of input i+1 is requested only after the lock of
\* input i has run to completion.
C6_LockFailure ==
    \A c \in Calls :
        /\ \A p \in DOMAIN log[c] :
              log[c][p].ev = "exec_lock" /\ log[c][p].st = "Fail"
              => /\ Done(c)
                 /\ Returned(c, "Lock", vm_inputs[c][LockErrReg])
                 /\ p = Len(log[c]) - 1
                 /\ log[c][p + 1].ev = "get_reg"
                 /\ \A q \in DOMAIN log[c] : log[c][q].i <= log[c][p].i
                 /\ ~Happened(c, {"immutable", "exec_main"})
                 /\ Len(read_once_input[c]) = log[c][p].i - 1
                 /\ context[c] = None
        /\ \A p \in DOMAIN log[c] :
              /\ log[c][p].ev = "read_once"
              /\ log[c][p].i > 1
              /\ Locked(memory, AddrAt(c, log[c][p].i - 1))
              => \E q \in 1..(p - 1) :
                    /\ log[c][q].ev = "exec_lock"
                    /\ log[c][q].i = log[c][p].i - 1
                    /\ log[c][q].st = "Ok"

C6_Witness ==
    /\ Done(1)
    /\ result[1].kind = "Lock"
    /\ result[1].data = <<2>>
    /\ Len(Destroying(1)) = MaxInputs
    /\ idx[1] = 1

\* C7: the verifier script's outcome decides the result.  Failure with the
\* verifier's error-code register holding c gives Script(c), exactly that
\* value; failure with the register never written gives ScriptUnspecified;
\* success gives Ok(()).
C7_ScriptOutcome ==
    \A c \in Calls :
        \A e \in LogEv(c) :
            e.ev = "exec_main"
            => /\ Done(c)
               /\ e.st = "Ok" => Returned(c, "Ok", <<>>)
               /\ e.st = "Fail" /\ vm_main[c][ScriptErrReg] # <<>>
                  => Returned(c, "Script", vm_main[c][ScriptErrReg])
               /\ e.st = "Fail" /\ vm_main[c][ScriptErrReg] = <<>>
                  => Returned(c, "ScriptUnspecified", <<>>)

C7_Witness ==
    /\ Done(1)
    /\ vm_main[1][ScriptErrReg] = <<0>>
    /\ result[1].kind = "Script"
    /\ result[1].data = <<0>>

\* C8: one register is the error-code output of both kinds of script: the
\* register verify reads after a failed lock script is the register it reads
\* after a failed verifier script, in every call.
C8_OneErrorRegister ==
    \A c \in Calls, d \in Calls :
        \A e \in LogEv(c), f \in LogEv(d) :
            e.ev = "get_reg" /\ f.ev = "get_reg" => e.a = f.a

\* C9: order preservation.  Once the VmContext is assembled, its
\* read_once_input is the data of memory.read_once(addr) for the entries of
\* operation.destroying, one per entry and in list order, duplicates kept, and
\* its immutable_input is memory.immutable(addr) likewise.
C9_OrderPreserved ==
    \A c \in Calls :
        context[c] # None
        => /\ context[c][1].read_once_input =
                [k \in DOMAIN Destroying(c) |-> memory.read_once[AddrAt(c, k)][1].data]
           /\ context[c][1].immutable_input =
                [k \in DOMAIN Destroying(c) |-> memory.immutable[AddrAt(c, k)][1]]

C9_Witness ==
    /\ Happened(1, {"exec_main"})
    /\ Len(Destroying(1)) = MaxInputs
    /\ AddrAt(1, 1) > AddrAt(1, MaxInputs)
    /\ Locked(memory, AddrAt(1, 1))

\* C10: happy path.  With a matching contract id, an empty destroying list, a
\* call_id bound in codex.verifiers and a verifier script that succeeds, verify
\* returns Ok(()) without consulting the memory, and the VmContext has empty
\* read_once_input and immutable_input, read_once_output =
\* operation.destructible and immutable_output = operation.immutable.
C10_HappyPath ==
    \A c \in Calls :
        /\ Done(c) /\ Matching(c)
        /\ Destroying(c) = <<>>
        /\ Op(c).call_id \in DOMAIN codex.verifiers
        /\ Exec(codex.verifiers[Op(c).call_id], FreshRegs, repo).st = "Ok"
        => /\ Returned(c, "Ok", <<>>)
           /\ ~Happened(c, {"read_once", "immutable", "exec_lock"})
           /\ context[c] = << [ read_once_input  |-> <<>>,
                                immutable_input  |-> <<>>,
                                read_once_output |-> Op(c).destructible,
                                immutable_output |-> Op(c).immutable ] >>

C10_Witness ==
    /\ Done(1)
    /\ memory = MemEmpty
    /\ Destroying(1) = <<>>
    /\ Op(1).destructible # <<>>
    /\ result[1].kind = "Ok"

----------------------------------------------------------------------------
(* C11 .. C19 *)

\* C11: verify is read-only.  No step of a call, whatever its outcome,
\* changes the codex, the operation, the memory (read-once and immutable
\* mapping) or the library repository; an accepted operation leaves its
\* destroying cells in the memory, so a second verify of the same operation
\* against the same memory returns what the first returned.
C11_ReadOnly ==
    /\ [][ /\ codex' = codex
           /\ memory' = memory
           /\ repo' = repo
           /\ args' = args ]_vars
    /\ [](\A c \in Calls, d \in Calls :
             Done(c) /\ Done(d) /\ args[c] = args[d] => result[c] = result[d])

C11_Witness ==
    /\ Done(1) /\ Done(2)
    /\ args[1] = args[2]
    /\ Destroying(1) # <<>>
    /\ result[1].kind = "Ok"
    /\ result[2].kind = "Ok"
    /\ memory = MemFull

\* the registers a lock script starts with when nothing but its own input's
\* witness w was ever put into the VM
RegsOfWitness(w) ==
    [r \in RegE |-> IF r <= 4 /\ r <= Len(w) THEN <<w[r]>> ELSE <<>>]

\* the lock of input k of call c, run on its own in a VM of its own
LockAlone(c, k) ==
    Exec(memory.read_once[AddrAt(c, k)][1].lock[1],
         RegsOfWitness(Destroying(c)[k].witness), repo)

\* inputs at which the first loop stops when call c runs alone
StopsPhase1(c) ==
    {k \in DOMAIN Destroying(c) :
        \/ memory.read_once[AddrAt(c, k)] = None
        \/ /\ memory.read_once[AddrAt(c, k)][1].lock # <<>>
           /\ LockAlone(c, k).st = "Fail"}

\* the result of call c when it runs alone, from its arguments, the codex,
\* the memory and the repo
AloneResult(c) ==
    IF Op(c).contract_id # args[c].contract_id
      THEN [kind |-> "WrongContract",
            data |-> <<args[c].contract_id, Op(c).contract_id>>]
    ELSE IF StopsPhase1(c) # {}
      THEN LET k == Least(StopsPhase1(c)) IN
           IF memory.read_once[AddrAt(c, k)] = None
             THEN [kind |-> "NoReadOnceInput", data |-> <<AddrAt(c, k)>>]
             ELSE [kind |-> "Lock", data |-> LockAlone(c, k).regs[LockErrReg]]
    ELSE IF NoDataIdx(c) # {}
      THEN [kind |-> "NoImmutableInput", data |-> <<AddrAt(c, Least(NoDataIdx(c)))>>]
    ELSE IF Op(c).call_id \notin DOMAIN codex.verifiers
      THEN [kind |-> "NotFound", data |-> <<Op(c).call_id>>]
    ELSE LET run == Exec(codex.verifiers[Op(c).call_id], [r \in RegE |-> <<>>], repo) IN
         IF run.st = "Ok" THEN [kind |-> "Ok", data |-> <<>>]
         ELSE IF run.regs[ScriptErrReg] # <<>>
           THEN [kind |-> "Script", data |-> run.regs[ScriptErrReg]]
         ELSE [kind |-> "ScriptUnspecified", data |-> <<>>]

\* C12: two calls on the same codex, memory and repo, their steps interleaved
\* in any order, each return the result they return when run alone; until it
\* returns a call has no result.
C12_Interleaving ==
    \A c \in Calls :
        /\ Done(c) => result[c] = AloneResult(c)
        /\ ~Done(c) => result[c].kind = "Pending"

C12_Witness ==
    /\ Done(1)
    /\ result[1].kind = "Lock"
    /\ pc[2] = "lock"
    /\ vm_inputs[1] # vm_inputs[2]
    /\ AloneResult(2).kind = "Ok"

\* both input collections of call c are complete: read_once and immutable
\* were looked up once per input, in list order, and found, and the lock of
\* every locked input has executed and succeeded
InputsComplete(c) ==
    /\ NoCellIdx(c) = {} /\ NoDataIdx(c) = {}
    /\ IndexesOf(c, "read_once") = [k \in DOMAIN Destroying(c) |-> k]
    /\ IndexesOf(c, "immutable") = [k \in DOMAIN Destroying(c) |-> k]
    /\ Len(read_once_input[c]) = Len(Destroying(c))
    /\ Len(immutable_input[c]) = Len(Destroying(c))
    /\ \A k \in DOMAIN Destroying(c) :
          memory.read_once[AddrAt(c, k)][1].lock # <<>>
          => \E e \in LogEv(c) : e.ev = "exec_lock" /\ e.i = k /\ e.st = "Ok"
    /\ ~LockFailed(c)

\* C13: the verifier script executes at most once per call, and when it
\* starts both input collections are complete; every read_once lookup and
\* every lock execution precedes the first immutable lookup.
C13_VerifierLast ==
    \A c \in Calls :
        /\ \A p \in DOMAIN log[c], q \in DOMAIN log[c] :
              log[c][p].ev = "exec_main" /\ log[c][q].ev = "exec_main" => p = q
        /\ pc[c] = "main" \/ Happened(c, {"exec_main"}) => InputsComplete(c)
        /\ pc[c] = "main" => ~Happened(c, {"exec_main"})
        /\ \A p \in DOMAIN log[c], q \in DOMAIN log[c] :
              p < q /\ log[c][p].ev = "immutable"
              => log[c][q].ev \notin {"read_once", "exec_lock"}

C13_Witness ==
    /\ pc[1] = "main"
    /\ Len(Destroying(1)) = MaxInputs
    /\ \A k \in DOMAIN Destroying(1) : Locked(memory, AddrAt(1, k))
    /\ AddrAt(1, 1) # AddrAt(1, MaxInputs)

\* the elements of a witness that have a register: index 0..3 in the code
FirstFour(w) == [k \in 1..(IF Len(w) < 4 THEN Len(w) ELSE 4) |-> w[k]]

\* two operations that differ at most in witness elements at index 4 and above
SameUpToFour(op1, op2) ==
    /\ op1.contract_id = op2.contract_id
    /\ op1.call_id = op2.call_id
    /\ op1.destructible = op2.destructible
    /\ op1.immutable = op2.immutable
    /\ Len(op1.destroying) = Len(op2.destroying)
    /\ \A k \in DOMAIN op1.destroying :
          /\ op1.destroying[k].addr = op2.destroying[k].addr
          /\ FirstFour(op1.destroying[k].witness) = FirstFour(op2.destroying[k].witness)

\* C14: when the lock script of an input with a witness of n elements starts,
\* witness register k (k = 1..4) holds witness element k-1 if k <= n and is
\* unset if k > n, and no other register is set; two calls whose operations
\* differ only in witness elements at index 4 and above return the same result.
C14_WitnessLoading ==
    /\ \A c \in Calls :
          pc[c] = "lock"
          => LET w == Destroying(c)[idx[c]].witness
                 n == Len(w)
             IN  /\ \A k \in 1..4 :
                       /\ k <= n => vm_inputs[c][k] = <<w[k]>>
                       /\ k > n => vm_inputs[c][k] = <<>>
                 /\ \A r \in 5..8 : vm_inputs[c][r] = <<>>
    /\ \A c \in Calls, d \in Calls :
          /\ pc[c] = "done" /\ pc[d] = "done"
          /\ args[c].contract_id = args[d].contract_id
          /\ SameUpToFour(Op(c), Op(d))
          => result[c] = result[d]

C14_Witness ==
    /\ pc[1] = "done" /\ pc[2] = "done"
    /\ SameUpToFour(Op(1), Op(2))
    /\ Len(Destroying(1)) = 1
    /\ memory.read_once[Destroying(1)[1].addr][1].lock # <<>>
    /\ Len(Destroying(1)[1].witness) = 4
    /\ Len(Destroying(2)[1].witness) > 4
    /\ result[1].kind = "Ok"

\* C15: an unset error-code register is not the value 0.  After a failed lock
\* script, the register verify reads holding 0 gives Lock(Some(0)) and the
\* register unset gives Lock(None); after a failed verifier script, the
\* register verify reads holding 0 gives Script(0) and the register unset gives
\* ScriptUnspecified.
C15_UnsetIsNotZero ==
    \A c \in Calls :
        /\ (\E e \in LogEv(c) : e.ev = "exec_lock" /\ e.st = "Fail")
           => /\ result[c].kind = "Lock"
              /\ vm_inputs[c][LockErrReg] = <<0>> <=> result[c].data = <<0>>
              /\ vm_inputs[c][LockErrReg] = <<>> <=> result[c].data = <<>>
        /\ (\E e \in LogEv(c) : e.ev = "exec_main" /\ e.st = "Fail")
           => /\ vm_main[c][ScriptErrReg] = <<0>>
                 <=> result[c].kind = "Script" /\ result[c].data = <<0>>
              /\ vm_main[c][ScriptErrReg] = <<>>
                 <=> result[c].kind = "ScriptUnspecified"

C15_Witness ==
    /\ result[1].kind = "Lock" /\ result[1].data = <<0>>
    /\ result[2].kind = "Lock" /\ result[2].data = <<>>
    /\ AddrAt(1, 1) = AddrAt(2, 1)

\* C16: soundness of acceptance.  verify returns Ok(()) only if, in that call,
\* the operation's contract id is the one given, memory.read_once and
\* memory.immutable were asked for and returned a value for every entry of
\* operation.destroying, the lock of every locked cell was executed exactly
\* once and succeeded, operation.call_id is a key of codex.verifiers, and the
\* verifier script was executed and succeeded.
C16_OkIsSound ==
    \A c \in Calls :
        result[c].kind = "Ok"
        => /\ Op(c).contract_id = args[c].contract_id
           /\ \A k \in DOMAIN Destroying(c) :
                 LET a == Destroying(c)[k].addr
                     runs == { p \in DOMAIN log[c] :
                                 log[c][p].ev = "exec_lock" /\ log[c][p].i = k }
                 IN  /\ memory.read_once[a] # <<>>
                     /\ memory.immutable[a] # <<>>
                     /\ \E e \in LogEv(c) :
                           e.ev = "read_once" /\ e.i = k /\ e.a = a /\ e.st = "Some"
                     /\ \E e \in LogEv(c) :
                           e.ev = "immutable" /\ e.i = k /\ e.a = a /\ e.st = "Some"
                     /\ memory.read_once[a][1].lock # <<>>
                        => /\ Cardinality(runs) = 1
                           /\ \A p \in runs : log[c][p].st = "Ok"
                     /\ memory.read_once[a][1].lock = <<>> => runs = {}
           /\ Op(c).call_id \in DOMAIN codex.verifiers
           /\ \E e \in LogEv(c) : e.ev = "exec_main" /\ e.st = "Ok"
           /\ \A e \in LogEv(c) : e.st # "Fail"

C16_Witness ==
    /\ result[1].kind = "Ok"
    /\ Len(Destroying(1)) = MaxInputs
    /\ memory.read_once[AddrAt(1, 1)][1].lock # <<>>
    /\ memory.read_once[AddrAt(1, MaxInputs)][1].lock = <<>>
    /\ Len(log[1]) > 2 * MaxInputs

\* input k of call c passed the checks of the first loop: its cell is there
\* and, if locked, its lock ran and succeeded
PassedPhase1(c, k) ==
    /\ memory.read_once[AddrAt(c, k)] # <<>>
    /\ memory.read_once[AddrAt(c, k)][1].lock # <<>>
       => \E e \in LogEv(c) : e.ev = "exec_lock" /\ e.i = k /\ e.st = "Ok"
    /\ \A e \in LogEv(c) : e.ev = "exec_lock" /\ e.i = k => e.st = "Ok"

\* C17: error precedence.  The checks are made in the order contract id; per
\* input in list order the read-once cell, then its lock; per input in list
\* order the immutable data; the entry point of call_id; the verifier script.
\* The result is the error of the first check that fails, every check before
\* it passed, and nothing was looked up or executed after it.
C17_Precedence ==
    \A c \in Calls :
        pc[c] = "done"
        => LET r == result[c]
               n == Len(Destroying(c))
               mismatch == Op(c).contract_id # args[c].contract_id
           IN
           /\ r.kind = "WrongContract" <=> mismatch
           /\ r.kind = "WrongContract" => log[c] = <<>>
           /\ r.kind \in {"NoReadOnceInput", "Lock"}
              => \E k \in 1..n :
                    /\ \A j \in 1..(k - 1) : PassedPhase1(c, j)
                    /\ r.kind = "NoReadOnceInput"
                       => /\ memory.read_once[AddrAt(c, k)] = <<>>
                          /\ r.data = <<AddrAt(c, k)>>
                          /\ log[c][Len(log[c])].ev = "read_once"
                    /\ r.kind = "Lock"
                       => /\ memory.read_once[AddrAt(c, k)] # <<>>
                          /\ \E e \in LogEv(c) :
                                e.ev = "exec_lock" /\ e.i = k /\ e.st = "Fail"
                          /\ log[c][Len(log[c])].ev = "get_reg"
                    /\ \A e \in LogEv(c) :
                          e.i <= k /\ e.i > 0 /\ e.ev \notin {"immutable", "exec_main"}
           /\ r.kind \in {"NoImmutableInput", "NotFound", "Script", "ScriptUnspecified", "Ok"}
              => \A k \in 1..n : PassedPhase1(c, k)
           /\ r.kind = "NoImmutableInput"
              => \E k \in 1..n :
                    /\ \A j \in 1..(k - 1) : memory.immutable[AddrAt(c, j)] # <<>>
                    /\ memory.immutable[AddrAt(c, k)] = <<>>
                    /\ r.data = <<AddrAt(c, k)>>
                    /\ log[c][Len(log[c])].ev = "immutable"
                    /\ log[c][Len(log[c])].i = k
                    /\ \A e \in LogEv(c) : e.ev # "exec_main" /\ e.i > 0
           /\ r.kind \in {"NotFound", "Script", "ScriptUnspecified", "Ok"}
              => \A k \in 1..n : memory.immutable[AddrAt(c, k)] # <<>>
           /\ r.kind = "NotFound"
              => /\ Op(c).call_id \notin DOMAIN codex.verifiers
                 /\ r.data = <<Op(c).call_id>>
                 /\ \A e \in LogEv(c) : e.ev # "exec_main" /\ e.i > 0
           /\ r.kind \in {"Script", "ScriptUnspecified"}
              => /\ Op(c).call_id \in DOMAIN codex.verifiers
                 /\ \E e \in LogEv(c) : e.ev = "exec_main" /\ e.st = "Fail"
                 /\ log[c][Len(log[c])].ev = "get_reg"

C17_Witness ==
    /\ pc[1] = "done"
    /\ result[1].kind = "NoImmutableInput"
    /\ memory.read_once[AddrAt(1, 1)][1].lock # <<>>
    /\ result[1].data = <<AddrAt(1, MaxInputs)>>
    /\ Op(1).call_id \notin DOMAIN codex.verifiers

\* two operations that differ at most in the witness of inputs whose cell has
\* no lock
SameButUnlockedWitness(op1, op2) ==
    /\ op1.contract_id = op2.contract_id
    /\ op1.call_id = op2.call_id
    /\ op1.destructible = op2.destructible
    /\ op1.immutable = op2.immutable
    /\ Len(op1.destroying) = Len(op2.destroying)
    /\ \A k \in DOMAIN op1.destroying :
          /\ op1.destroying[k].addr = op2.destroying[k].addr
          /\ \/ op1.destroying[k].witness = op2.destroying[k].witness
             \/ /\ memory.read_once[op1.destroying[k].addr] # <<>>
                /\ memory.read_once[op1.destroying[k].addr][1].lock = <<>>

Count(c, kind) == Cardinality({p \in DOMAIN log[c] : log[c][p].ev = kind})

\* C19: termination.  Every call that started returns; it returns one
\* outcome among Ok and the seven CallError variants and that outcome never
\* changes; a call makes at most len(destroying) read_once lookups, lock
\* executions and immutable lookups and at most one verifier execution; no
\* lookup or execution is made twice for the same input.
C19_Termination ==
    /\ \A c \in Calls : pc[c] = "start" ~> pc[c] = "done"
    /\ [](\A c \in Calls :
             /\ Count(c, "read_once") <= Len(Destroying(c))
             /\ Count(c, "exec_lock") <= Len(Destroying(c))
             /\ Count(c, "immutable") <= Len(Destroying(c))
             /\ Count(c, "exec_main") <= 1
             /\ \A p \in DOMAIN log[c], q \in DOMAIN log[c] :
                   /\ log[c][p].ev = log[c][q].ev
                   /\ log[c][p].i = log[c][q].i
                   /\ log[c][p].ev \in {"read_once", "exec_lock", "immutable", "exec_main"}
                   => p = q
             /\ pc[c] = "done"
                <=> result[c].kind \in {"Ok", "WrongContract", "NoReadOnceInput",
                                        "NoImmutableInput", "NotFound", "Lock",
                                        "Script", "ScriptUnspecified"})
    /\ [][\A c \in Calls :
             pc[c] = "done" => pc'[c] = "done" /\ result'[c] = result[c]
                               /\ log'[c] = log[c]]_vars

C19_Witness ==
    /\ pc[1] = "done"
    /\ Count(1, "read_once") = MaxInputs
    /\ Count(1, "exec_lock") = MaxInputs
    /\ Count(1, "immutable") = MaxInputs
    /\ Count(1, "exec_main") = 1

====
